---- MODULE Spec2Model ----
(***************************************************************************)
(* The PowerDNS provider of dnscontrol (providers/powerdns): the REST      *)
(* client (GetZone, UpdateZoneRRSets) and the reconciliation pass          *)
(* (GetDomainCorrections, buildCorrection, nativeToDomainConfig), run      *)
(* against a PowerDNS server whose PATCH replaces or removes whole         *)
(* record-sets.                                                            *)
(*                                                                         *)
(* A DNS name is the sequence of its dot-separated labels: "www.ex.com"    *)
(* is <<"www","ex","com">> and the wire form "www.ex.com." is              *)
(* <<"www","ex","com","">>, so appending "." to a string is appending the  *)
(* empty label.                                                            *)
(***************************************************************************)
EXTENDS Integers, Sequences, FiniteSets, TLC

VARIABLES
    dc,           \* the DomainConfig handed to the provider: Name and desired Records
    zone,         \* the RRsets the PowerDNS server holds for the zone
    pc,           \* the orchestrator: "idle", "planned", "stopped", "failed", "panic"
                  \* ("new", "noprovider": before and after a failed construction)
    corrections,  \* the corrections returned by the last GetDomainCorrections
    idx,          \* index of the next correction to execute
    pass,         \* number of GetDomainCorrections calls made so far
    prev,         \* how the pass before the current one ended
    last,         \* what the last call (GetDomainCorrections or a correction's F) did
    provider,     \* the provider newPowerDNSProvider returned, if it returned one
    other         \* a second, concurrent run against the same zone, if there is one

vars == <<dc, zone, pc, corrections, idx, pass, prev, last, provider, other>>

----------------------------------------------------------------------------
(* Bounds of the model *)

MaxDesired == 2     \* longest desired record list
MaxRRSets == 2      \* most record-sets the server holds initially
MaxRecords == 2     \* most records in one initial record-set
MaxPasses == 2      \* reconciliation passes in one behaviour

(* Program constants *)

StatusOK == 200
StatusNoContent == 204
StatusNotFound == 404

ChangeTypeReplace == "REPLACE"
ChangeTypeDelete == "DELETE"

----------------------------------------------------------------------------
(* Names, records and the inputs of the model *)

Origin == <<"ex", "com">>

TrailingDot(n) == Append(n, "")

Targets == {"1.1.1.1", "2.2.2.2"}

DesiredTTLs == {300, 600}

ServerTTLs == {300}

RRKeys == {<<Origin, "TXT">>, <<<<"www">> \o Origin, "A">>}

IsSuffix(s, t) ==
    /\ Len(s) <= Len(t)
    /\ SubSeq(t, Len(t) - Len(s) + 1, Len(t)) = s

TrimDomainName(fqdn, origin) ==
    IF fqdn = origin THEN <<"@">>
    ELSE IF IsSuffix(origin, fqdn) THEN SubSeq(fqdn, 1, Len(fqdn) - Len(origin))
    ELSE TrailingDot(fqdn)

TrimTrailingDot(fqdn) ==
    IF Len(fqdn) > 1 /\ fqdn[Len(fqdn)] = ""
    THEN SubSeq(fqdn, 1, Len(fqdn) - 1)
    ELSE fqdn

SetLabelFromFQDN(rc, fqdn, origin) ==
    [rc EXCEPT !.Name = TrimDomainName(TrimTrailingDot(fqdn), origin),
               !.NameFQDN = TrimTrailingDot(fqdn)]

GetLabelFQDN(rc) == rc.NameFQDN

GetTargetField(rc) == rc.Target

RecordConfig(type, target, ttl) ==
    [Name |-> <<>>, NameFQDN |-> <<>>, Type |-> type, Target |-> target, TTL |-> ttl]

NoRecord == RecordConfig("", "", 0)

DesiredRecords ==
    {SetLabelFromFQDN(RecordConfig(k[2], t, ttl), k[1], Origin) :
        k \in RRKeys, t \in Targets, ttl \in DesiredTTLs}

Key(rc) == <<rc.NameFQDN, rc.Type, rc.Target>>

SeqsUpTo(S, n) == UNION {[1..k -> S] : k \in 0..n}

NoDuplicateKeys(recs) ==
    \A i, j \in 1..Len(recs) : Key(recs[i]) = Key(recs[j]) => i = j

DesiredLists == {recs \in SeqsUpTo(DesiredRecords, MaxDesired) : NoDuplicateKeys(recs)}

PdnsRecord(content) == [Content |-> content, Disabled |-> FALSE, SetPr |-> FALSE]

PdnsRRSet(name, type, ttl, changetype, records) ==
    [Name |-> name, Type |-> type, TTL |-> ttl, ChangeType |-> changetype,
     Records |-> records]

Injective(s) == \A i, j \in 1..Len(s) : s[i] = s[j] => i = j

ServerRecordLists ==
    {[i \in 1..Len(cs) |-> PdnsRecord(cs[i])] :
        cs \in {s \in SeqsUpTo(Targets, MaxRecords) : Len(s) >= 1 /\ Injective(s)}}

ServerRRSets ==
    {PdnsRRSet(TrailingDot(k[1]), k[2], ttl, "", recs) :
        k \in RRKeys, ttl \in ServerTTLs, recs \in ServerRecordLists}

SetKey(set) == <<set.Name, set.Type>>

ZoneStates ==
    {z \in SeqsUpTo(ServerRRSets, MaxRRSets) :
        \A i, j \in 1..Len(z) : SetKey(z[i]) = SetKey(z[j]) => i = j}

----------------------------------------------------------------------------
(* The PowerDNS server: what a PATCH of record-sets does to the zone *)

HasSet(z, k) == \E i \in 1..Len(z) : SetKey(z[i]) = k

ApplyRRSet(z, set) ==
    IF set.ChangeType = ChangeTypeDelete
    THEN SelectSeq(z, LAMBDA s : SetKey(s) # SetKey(set))
    ELSE IF set.ChangeType = ChangeTypeReplace
    THEN LET stored == PdnsRRSet(set.Name, set.Type, set.TTL, "", set.Records)
         IN  IF HasSet(z, SetKey(set))
             THEN [i \in 1..Len(z) |-> IF SetKey(z[i]) = SetKey(set) THEN stored ELSE z[i]]
             ELSE Append(z, stored)
    ELSE z

RECURSIVE ApplyRRSets(_, _)
ApplyRRSets(z, sets) ==
    IF sets = <<>> THEN z
    ELSE ApplyRRSets(ApplyRRSet(z, Head(sets)), Tail(sets))

(* Statuses the server may answer besides 200, 204 and 404. *)
OtherStatuses == {500}

(* The outcome of one HTTP exchange, chosen by the network and the server:  *)
(* whether the request reached the server, whether the server applied it,   *)
(* the status answered (0: no response reached the client) and the body.    *)
NetOutcome(delivered, applied, status, body) ==
    [delivered |-> delivered, applied |-> applied, status |-> status, body |-> body]

GetOutcomes ==
    {NetOutcome(FALSE, FALSE, 0, "none"),
     NetOutcome(TRUE, FALSE, StatusNotFound, "none"),
     NetOutcome(TRUE, FALSE, StatusNoContent, "none")}
    \cup {NetOutcome(TRUE, FALSE, st, "none") : st \in OtherStatuses}
    \cup {NetOutcome(TRUE, FALSE, StatusOK, b) : b \in {"zone", "null", "bad", "readerr"}}

PatchOutcomes ==
    {NetOutcome(FALSE, FALSE, 0, "none"),
     NetOutcome(TRUE, TRUE, 0, "none"),
     NetOutcome(TRUE, TRUE, StatusNoContent, "none"),
     NetOutcome(TRUE, FALSE, StatusOK, "none")}
    \cup {NetOutcome(TRUE, FALSE, st, "none") : st \in OtherStatuses}

Request(method, zoneId, body) == [method |-> method, zoneId |-> zoneId, body |-> body]

RECURSIVE Serve(_, _, _)
Serve(z, requests, net) ==
    IF requests = <<>> THEN z
    ELSE LET req == Head(requests)
             z1 == IF req.method = "PATCH" /\ net.delivered /\ net.applied
                   THEN ApplyRRSets(z, req.body)
                   ELSE z
         IN  Serve(z1, Tail(requests), net)

----------------------------------------------------------------------------
(* The REST client *)

Err(msg, status) == [msg |-> msg, status |-> status]

NilErr == Err("nil", 0)

ProviderClient == [apiKey |-> "key", baseUrlOk |-> TRUE]

(* Base urls url.Parse rejects. *)
UnparseableUrls == {":bad"}

NewPowerDnsApiClient(apiKey, baseUrl) ==
    [apiKey |-> apiKey, baseUrlOk |-> baseUrl \notin UnparseableUrls]

getApiUrl(c) == IF c.baseUrlOk THEN NilErr ELSE Err("parse url", 0)

NilZone == [isNil |-> TRUE, RRsets |-> <<>>]

Unmarshal(body, server) ==
    IF body = "zone" THEN [zone |-> [isNil |-> FALSE, RRsets |-> server], err |-> NilErr]
    ELSE IF body = "null" THEN [zone |-> NilZone, err |-> NilErr]
    ELSE [zone |-> NilZone, err |-> Err("json", 0)]

GetZone(c, zoneId, net, server) ==
    IF getApiUrl(c) # NilErr
    THEN [zone |-> NilZone, err |-> getApiUrl(c), requests |-> <<>>]
    ELSE LET requests == <<Request("GET", zoneId, <<>>)>>
         IN  IF net.status = 0
             THEN [zone |-> NilZone, err |-> Err("transport", 0), requests |-> requests]
             ELSE IF net.status # StatusOK /\ net.status # StatusNotFound
             THEN [zone |-> NilZone, err |-> Err("failed to get DNS zone", net.status),
                   requests |-> requests]
             ELSE IF net.status = StatusNotFound
             THEN [zone |-> NilZone, err |-> Err("domain does not exists in DNS zone", 0),
                   requests |-> requests]
             ELSE IF net.body = "readerr"
             THEN [zone |-> NilZone, err |-> Err("read body", 0), requests |-> requests]
             ELSE [zone |-> Unmarshal(net.body, server).zone,
                   err |-> Unmarshal(net.body, server).err,
                   requests |-> requests]

GetZones(c, net) ==
    IF getApiUrl(c) # NilErr
    THEN [err |-> getApiUrl(c), requests |-> <<>>]
    ELSE LET requests == <<Request("GET", <<>>, <<>>)>>
         IN  IF net.status = 0
             THEN [err |-> Err("transport", 0), requests |-> requests]
             ELSE IF net.status # StatusOK
             THEN [err |-> Err("failed to get DNS zones", net.status),
                   requests |-> requests]
             ELSE IF net.body = "readerr"
             THEN [err |-> Err("read body", 0), requests |-> requests]
             ELSE [err |-> Unmarshal(net.body, <<>>).err, requests |-> requests]

(* Mutant: any 2xx status counts as success. *)
UpdateZoneRRSets_Any2xx(c, zoneId, rrSets, net) ==
    IF getApiUrl(c) # NilErr
    THEN [err |-> getApiUrl(c), requests |-> <<>>]
    ELSE LET requests == <<Request("PATCH", zoneId, rrSets)>>
         IN  IF net.status = 0
             THEN [err |-> Err("transport", 0), requests |-> requests]
             ELSE IF net.status < 200 \/ net.status > 299
             THEN [err |-> Err("failed to update DNS records", net.status),
                   requests |-> requests]
             ELSE [err |-> NilErr, requests |-> requests]

UpdateZoneRRSets(c, zoneId, rrSets, net) ==
    IF getApiUrl(c) # NilErr
    THEN [err |-> getApiUrl(c), requests |-> <<>>]
    ELSE LET requests == <<Request("PATCH", zoneId, rrSets)>>
         IN  IF net.status = 0
             THEN [err |-> Err("transport", 0), requests |-> requests]
             ELSE IF net.status # StatusNoContent
             THEN [err |-> Err("failed to update DNS records", net.status),
                   requests |-> requests]
             ELSE [err |-> NilErr, requests |-> requests]

----------------------------------------------------------------------------
(* The differ (providers/diff): correlation by the key (name, type, target) *)

Map(s, Op(_)) == [i \in 1..Len(s) |-> Op(s[i])]

Keys(recs) == {Key(recs[i]) : i \in 1..Len(recs)}

FirstWithKey(recs, k) ==
    recs[CHOOSE i \in 1..Len(recs) :
            /\ Key(recs[i]) = k
            /\ \A j \in 1..(i - 1) : Key(recs[j]) # k]

Correlation(existing, desired) == [Existing |-> existing, Desired |-> desired]

IncrementalDiff(desired, existing) ==
    LET both(d) == Key(d) \in Keys(existing)
        same(d) == FirstWithKey(existing, Key(d)).TTL = d.TTL
        pair(d) == Correlation(FirstWithKey(existing, Key(d)), d)
    IN  [unchanged |-> Map(SelectSeq(desired, LAMBDA d : both(d) /\ same(d)), pair),
         create    |-> Map(SelectSeq(desired, LAMBDA d : ~both(d)),
                           LAMBDA d : Correlation(NoRecord, d)),
         del       |-> Map(SelectSeq(existing, LAMBDA e : Key(e) \notin Keys(desired)),
                           LAMBDA e : Correlation(e, NoRecord)),
         modify    |-> Map(SelectSeq(desired, LAMBDA d : both(d) /\ ~same(d)), pair)]

CorrelationString(c) ==
    IF c.Existing = NoRecord THEN <<"CREATE", Key(c.Desired), c.Desired.TTL>>
    ELSE IF c.Desired = NoRecord THEN <<"DELETE", Key(c.Existing), c.Existing.TTL>>
    ELSE <<"MODIFY", Key(c.Existing), c.Existing.TTL, c.Desired.TTL>>

----------------------------------------------------------------------------
(* The provider *)

(* Mutant: only the first record of each record-set is converted. *)
RECURSIVE nativeToDomainConfig_FirstOnly(_, _)
nativeToDomainConfig_FirstOnly(native, dcv) ==
    IF native = <<>> THEN <<>>
    ELSE LET r == Head(native)
             rcc(rr) == SetLabelFromFQDN(RecordConfig(r.Type, rr.Content, r.TTL),
                                         r.Name, dcv.Name)
         IN  (IF r.Records = <<>> THEN <<>> ELSE <<rcc(r.Records[1])>>)
             \o nativeToDomainConfig_FirstOnly(Tail(native), dcv)

RECURSIVE nativeToDomainConfig(_, _)
nativeToDomainConfig(native, dcv) ==
    IF native = <<>> THEN <<>>
    ELSE LET r == Head(native)
             rcc(rr) == SetLabelFromFQDN(RecordConfig(r.Type, rr.Content, r.TTL),
                                         r.Name, dcv.Name)
         IN  Map(r.Records, rcc) \o nativeToDomainConfig(Tail(native), dcv)

(* A correction is its message and its closure F; the closure is kept as    *)
(* the branch that built it ("replace" or "delete") and what it captured.   *)
buildCorrection(c, dcv, action) ==
    IF action = "create" \/ action = "modify"
    THEN [Msg |-> CorrelationString(c), F |-> "replace", c |-> c, dcName |-> dcv.Name]
    ELSE [Msg |-> CorrelationString(c), F |-> "delete", c |-> c, dcName |-> dcv.Name]

(* Mutant: the name is sent without the trailing dot. *)
WireName_NoDot(rc) == GetLabelFQDN(rc)

(* The name a payload carries: fmt.Sprintf("%s.", rc.GetLabelFQDN()). *)
WireName(rc) == TrailingDot(GetLabelFQDN(rc))

(* Mutant: a replacement carries the TTL of the existing record. *)
CorrectionSets_ExistingTTL(cor) ==
    IF cor.F = "replace"
    THEN <<PdnsRRSet(WireName(cor.c.Desired), cor.c.Desired.Type,
                     cor.c.Existing.TTL, ChangeTypeReplace,
                     <<PdnsRecord(GetTargetField(cor.c.Desired))>>)>>
    ELSE <<PdnsRRSet(WireName(cor.c.Existing), cor.c.Existing.Type,
                     0, ChangeTypeDelete,
                     <<PdnsRecord(GetTargetField(cor.c.Existing))>>)>>

(* Mutant: a deletion carries the TTL of the existing record. *)
CorrectionSets_DeleteWithTTL(cor) ==
    IF cor.F = "replace"
    THEN <<PdnsRRSet(WireName(cor.c.Desired), cor.c.Desired.Type,
                     cor.c.Desired.TTL, ChangeTypeReplace,
                     <<PdnsRecord(GetTargetField(cor.c.Desired))>>)>>
    ELSE <<PdnsRRSet(WireName(cor.c.Existing), cor.c.Existing.Type,
                     cor.c.Existing.TTL, ChangeTypeDelete,
                     <<PdnsRecord(GetTargetField(cor.c.Existing))>>)>>

(* The record-sets the closure of a correction builds when it runs. *)
CorrectionSets(cor) ==
    IF cor.F = "replace"
    THEN <<PdnsRRSet(WireName(cor.c.Desired), cor.c.Desired.Type,
                     cor.c.Desired.TTL, ChangeTypeReplace,
                     <<PdnsRecord(GetTargetField(cor.c.Desired))>>)>>
    ELSE <<PdnsRRSet(WireName(cor.c.Existing), cor.c.Existing.Type,
                     0, ChangeTypeDelete,
                     <<PdnsRecord(GetTargetField(cor.c.Existing))>>)>>

MutatorCall(zoneId, rrSets, err) == [zoneId |-> zoneId, rrSets |-> rrSets, err |-> err]

(* Mutant: the closure swallows the error of UpdateZoneRRSets. *)
CorrectionF_SwallowError(client, cor, net) ==
    LET sets == CorrectionSets(cor)
        r == UpdateZoneRRSets(client, cor.dcName, sets, net)
    IN  [ret |-> NilErr,
         calls |-> <<MutatorCall(cor.dcName, sets, r.err)>>,
         requests |-> r.requests]

(* Running the closure F of a correction: what it returns, the calls it     *)
(* made to UpdateZoneRRSets and the requests those sent.                    *)
CorrectionF(client, cor, net) ==
    LET sets == CorrectionSets(cor)
        r == UpdateZoneRRSets(client, cor.dcName, sets, net)
    IN  [ret |-> r.err,
         calls |-> <<MutatorCall(cor.dcName, sets, r.err)>>,
         requests |-> r.requests]

(* Mutant: the loop over the modify bucket is missing. *)
BuildCorrections_NoModify(d, dcv) ==
    Map(d.del, LAMBDA c : buildCorrection(c, dcv, "delete"))
    \o Map(d.create, LAMBDA c : buildCorrection(c, dcv, "create"))

(* Mutant: creations are built first, deletions last. *)
BuildCorrections_CreatesFirst(d, dcv) ==
    Map(d.create, LAMBDA c : buildCorrection(c, dcv, "create"))
    \o Map(d.modify, LAMBDA c : buildCorrection(c, dcv, "modify"))
    \o Map(d.del, LAMBDA c : buildCorrection(c, dcv, "delete"))

(* The three loops of GetDomainCorrections over the differ's buckets. *)
BuildCorrections(d, dcv) ==
    Map(d.del, LAMBDA c : buildCorrection(c, dcv, "delete"))
    \o Map(d.modify, LAMBDA c : buildCorrection(c, dcv, "modify"))
    \o Map(d.create, LAMBDA c : buildCorrection(c, dcv, "create"))

(* Mutant: a failed fetch is taken for an empty zone. *)
GetDomainCorrections_IgnoreFetchError(client, dcv, net, server) ==
    LET fetched == GetZone(client, dcv.Name, net, server)
        currentRecords == nativeToDomainConfig(fetched.zone.RRsets, dcv)
        d == IncrementalDiff(dcv.Records, currentRecords)
    IN  [corrections |-> BuildCorrections(d, dcv),
         hasList |-> TRUE, err |-> NilErr, panic |-> FALSE, diffed |-> TRUE,
         fetched |-> fetched, current |-> currentRecords,
         requests |-> fetched.requests]

(* Mutant: the corrections are sent to the server while they are built. *)
GetDomainCorrections_EagerApply(client, dcv, net, server) ==
    LET fetched == GetZone(client, dcv.Name, net, server)
    IN  IF fetched.err # NilErr
        THEN [corrections |-> <<>>, hasList |-> FALSE, err |-> fetched.err,
              panic |-> FALSE, diffed |-> FALSE, fetched |-> fetched,
              current |-> <<>>, requests |-> fetched.requests]
        ELSE IF fetched.zone.isNil
        THEN [corrections |-> <<>>, hasList |-> FALSE, err |-> NilErr,
              panic |-> TRUE, diffed |-> FALSE, fetched |-> fetched,
              current |-> <<>>, requests |-> fetched.requests]
        ELSE LET currentRecords == nativeToDomainConfig(fetched.zone.RRsets, dcv)
                 d == IncrementalDiff(dcv.Records, currentRecords)
                 cors == BuildCorrections(d, dcv)
             IN  [corrections |-> cors,
                  hasList |-> TRUE, err |-> NilErr, panic |-> FALSE, diffed |-> TRUE,
                  fetched |-> fetched, current |-> currentRecords,
                  requests |-> fetched.requests
                      \o Map(cors, LAMBDA cor : Request("PATCH", dcv.Name,
                                                        CorrectionSets(cor)))]

GetDomainCorrections(client, dcv, net, server) ==
    LET fetched == GetZone(client, dcv.Name, net, server)
    IN  IF fetched.err # NilErr
        THEN [corrections |-> <<>>, hasList |-> FALSE, err |-> fetched.err,
              panic |-> FALSE, diffed |-> FALSE, fetched |-> fetched,
              current |-> <<>>, requests |-> fetched.requests]
        ELSE IF fetched.zone.isNil
        THEN [corrections |-> <<>>, hasList |-> FALSE, err |-> NilErr,
              panic |-> TRUE, diffed |-> FALSE, fetched |-> fetched,
              current |-> <<>>, requests |-> fetched.requests]
        ELSE LET currentRecords == nativeToDomainConfig(fetched.zone.RRsets, dcv)
                 d == IncrementalDiff(dcv.Records, currentRecords)
             IN  [corrections |-> BuildCorrections(d, dcv),
                  hasList |-> TRUE, err |-> NilErr, panic |-> FALSE, diffed |-> TRUE,
                  fetched |-> fetched, current |-> currentRecords,
                  requests |-> fetched.requests]

Provider(client) == [made |-> TRUE, apiClient |-> client]

NoProvider == [made |-> FALSE, apiClient |-> NewPowerDnsApiClient("", "")]

(* Mutant: the error of GetZones is not checked. *)
newPowerDNSProvider_IgnoreGetZones(m, net) ==
    IF m.apikey = "" \/ m.baseurl = ""
    THEN [provider |-> NoProvider, err |-> Err("Api key and/or base url missing", 0),
          requests |-> <<>>]
    ELSE LET apiClient == NewPowerDnsApiClient(m.apikey, m.baseurl)
             r == GetZones(apiClient, net)
         IN  [provider |-> Provider(apiClient), err |-> NilErr,
              requests |-> r.requests]

newPowerDNSProvider(m, net) ==
    IF m.apikey = "" \/ m.baseurl = ""
    THEN [provider |-> NoProvider, err |-> Err("Api key and/or base url missing", 0),
          requests |-> <<>>]
    ELSE LET apiClient == NewPowerDnsApiClient(m.apikey, m.baseurl)
             r == GetZones(apiClient, net)
         IN  IF r.err # NilErr
             THEN [provider |-> NoProvider, err |-> r.err, requests |-> r.requests]
             ELSE [provider |-> Provider(apiClient), err |-> NilErr,
                   requests |-> r.requests]

----------------------------------------------------------------------------
(* The state machine: the orchestrator calls GetDomainCorrections, then     *)
(* either runs the returned corrections in order, stopping at the first one *)
(* that fails, or runs none of them (a preview), and may then start the     *)
(* next pass. A pass whose fetch fails ends the run: it has changed nothing, *)
(* so what follows it is what follows an initial state with the same zone.  *)

NoNet == NetOutcome(FALSE, FALSE, 0, "none")

NoArg == [apikey |-> "", baseurl |-> ""]

(* The second run: its desired state, its position, its correction list,   *)
(* which of the two runs fetched first and whether the two overlapped.     *)
NoOther ==
    [dc |-> [Name |-> Origin, Records |-> <<>>], pc |-> "absent",
     corrections |-> <<>>, idx |-> 1, first |-> "none", overlap |-> FALSE]

NoFetch == [zone |-> NilZone, err |-> NilErr, requests |-> <<>>]

NoCall ==
    [fn |-> "none", net |-> NoNet, ret |-> NilErr, requests |-> <<>>, calls |-> <<>>,
     fetched |-> NoFetch, hasList |-> FALSE, diffed |-> FALSE, ran |-> 0,
     changed |-> FALSE, current |-> <<>>, arg |-> NoArg]

Init ==
    /\ dc \in {[Name |-> Origin, Records |-> recs] : recs \in DesiredLists}
    /\ zone \in ZoneStates
    /\ pc = "idle"
    /\ corrections = <<>>
    /\ idx = 1
    /\ pass = 0
    /\ prev = "none"
    /\ last = NoCall
    /\ provider = Provider(ProviderClient)
    /\ other = NoOther

PassComplete == pc = "planned" /\ idx > Len(corrections)

HowPassEnded ==
    IF pass = 0 THEN "none"
    ELSE IF PassComplete THEN "complete"
    ELSE IF pc = "planned" THEN "preview"
    ELSE IF pc = "stopped" THEN "partial"
    ELSE "failed"

RunGetDomainCorrections(net) ==
    /\ pass < MaxPasses
    /\ \/ pc \in {"idle", "stopped"}
       \/ pc = "planned" /\ (idx = 1 \/ idx > Len(corrections))
    /\ LET r == GetDomainCorrections(provider.apiClient, dc, net, zone)
       IN  /\ corrections' = r.corrections
           /\ pc' = IF r.panic THEN "panic"
                    ELSE IF r.err # NilErr THEN "failed"
                    ELSE "planned"
           /\ zone' = Serve(zone, r.requests, net)
           /\ last' = [fn |-> "GetDomainCorrections", net |-> net, ret |-> r.err,
                       requests |-> r.requests, calls |-> <<>>, fetched |-> r.fetched,
                       hasList |-> r.hasList, diffed |-> r.diffed, ran |-> 0,
                       changed |-> Serve(zone, r.requests, net) # zone,
                       current |-> r.current, arg |-> NoArg]
    /\ idx' = 1
    /\ pass' = pass + 1
    /\ prev' = HowPassEnded
    /\ UNCHANGED <<dc, provider>>

RunCorrection(net) ==
    /\ pc = "planned"
    /\ idx <= Len(corrections)
    /\ LET r == CorrectionF(provider.apiClient, corrections[idx], net)
       IN  /\ zone' = Serve(zone, r.requests, net)
           /\ pc' = IF r.ret = NilErr THEN "planned" ELSE "stopped"
           /\ idx' = IF r.ret = NilErr THEN idx + 1 ELSE idx
           /\ last' = [fn |-> "F", net |-> net, ret |-> r.ret, requests |-> r.requests,
                       calls |-> r.calls, fetched |-> NoFetch, hasList |-> FALSE,
                       diffed |-> FALSE, ran |-> idx,
                       changed |-> Serve(zone, r.requests, net) # zone,
                       current |-> <<>>, arg |-> NoArg]
    /\ UNCHANGED <<dc, corrections, pass, prev, provider>>

Fetch == (\E net \in GetOutcomes : RunGetDomainCorrections(net)) /\ UNCHANGED other

Execute == (\E net \in PatchOutcomes : RunCorrection(net)) /\ UNCHANGED other

Next == Fetch \/ Execute

Spec == Init /\ [][Next]_vars

(* A second specification: the server may also hold record-sets without     *)
(* records and record-sets whose name lies outside the zone.                *)

ForeignName == <<"other", "org", "">>

WideRRSets ==
    ServerRRSets
    \cup {PdnsRRSet(TrailingDot(k[1]), k[2], ttl, "", <<>>) :
             k \in RRKeys, ttl \in ServerTTLs}
    \cup {PdnsRRSet(ForeignName, "A", ttl, "", recs) :
             ttl \in ServerTTLs, recs \in ServerRecordLists}

WideZoneStates ==
    {z \in SeqsUpTo(WideRRSets, MaxRRSets) :
        \A i, j \in 1..Len(z) : SetKey(z[i]) = SetKey(z[j]) => i = j}

InitWide ==
    /\ dc \in {[Name |-> Origin, Records |-> recs] : recs \in SeqsUpTo(DesiredRecords, 1)}
    /\ zone \in WideZoneStates
    /\ pc = "idle"
    /\ corrections = <<>>
    /\ idx = 1
    /\ pass = 0
    /\ prev = "none"
    /\ last = NoCall
    /\ provider = Provider(ProviderClient)
    /\ other = NoOther

SpecWide == InitWide /\ [][Next]_vars

(* A third specification: the run starts with the construction of the       *)
(* provider from the credentials m.                                         *)

Credentials ==
    {[apikey |-> k, baseurl |-> u] :
        k \in {"", "key"}, u \in {"", "http://pdns:8081"} \cup UnparseableUrls}

InitProvider ==
    /\ dc \in {[Name |-> Origin, Records |-> recs] : recs \in SeqsUpTo(DesiredRecords, 1)}
    /\ zone \in ZoneStates
    /\ pc = "new"
    /\ corrections = <<>>
    /\ idx = 1
    /\ pass = 0
    /\ prev = "none"
    /\ last = NoCall
    /\ provider = NoProvider
    /\ other = NoOther

RunNewPowerDNSProvider(m, net) ==
    /\ pc = "new"
    /\ LET r == newPowerDNSProvider(m, net)
       IN  /\ provider' = r.provider
           /\ pc' = IF r.provider.made THEN "idle" ELSE "noprovider"
           /\ zone' = Serve(zone, r.requests, net)
           /\ last' = [NoCall EXCEPT !.fn = "newPowerDNSProvider",
                                     !.arg = m,
                                     !.net = IF r.requests = <<>> THEN NoNet ELSE net,
                                     !.ret = r.err,
                                     !.requests = r.requests,
                                     !.changed = Serve(zone, r.requests, net) # zone]
    /\ UNCHANGED <<dc, corrections, idx, pass, prev, other>>

Construct == \E m \in Credentials, net \in GetOutcomes : RunNewPowerDNSProvider(m, net)

NextProvider == Construct \/ Fetch \/ Execute

SpecProvider == InitProvider /\ [][NextProvider]_vars

(* A fourth specification: two runs, each one pass with its own desired     *)
(* state, against the same zone and a backend that answers every request.  *)
(* Each run's steps (its fetch, then its corrections one by one) interleave *)
(* freely with the other's.                                                 *)

RaceTTL == CHOOSE t \in DesiredTTLs : t \in ServerTTLs

RaceLists ==
    {recs \in DesiredLists : \A i \in 1..Len(recs) : recs[i].TTL = RaceTTL}

GetOk == {n \in GetOutcomes : n.status = StatusOK /\ n.body = "zone"}

PatchOk == {n \in PatchOutcomes : n.status = StatusNoContent}

InProgress == pc = "planned" /\ idx <= Len(corrections)

OtherInProgress == other.pc = "planned" /\ other.idx <= Len(other.corrections)

OtherComplete == other.pc = "planned" /\ other.idx > Len(other.corrections)

InitRace ==
    /\ dc \in {[Name |-> Origin, Records |-> recs] : recs \in RaceLists}
    /\ zone \in {z \in ZoneStates : Len(z) <= 1}
    /\ pc = "idle"
    /\ corrections = <<>>
    /\ idx = 1
    /\ pass = 0
    /\ prev = "none"
    /\ last = NoCall
    /\ provider = Provider(ProviderClient)
    /\ other \in {[NoOther EXCEPT !.dc = [Name |-> Origin, Records |-> recs],
                                 !.pc = "idle"] : recs \in RaceLists}

FetchFirst ==
    /\ pass = 0
    /\ \E net \in GetOk : RunGetDomainCorrections(net)
    /\ other' = [other EXCEPT !.first = IF @ = "none" THEN "this" ELSE @,
                              !.overlap = @ \/ OtherInProgress]

ExecuteFirst ==
    /\ \E net \in PatchOk : RunCorrection(net)
    /\ UNCHANGED other

RunOtherGetDomainCorrections(net) ==
    /\ other.pc = "idle"
    /\ LET r == GetDomainCorrections(provider.apiClient, other.dc, net, zone)
       IN  /\ zone' = Serve(zone, r.requests, net)
           /\ other' = [other EXCEPT
                           !.corrections = r.corrections,
                           !.pc = IF r.panic THEN "panic"
                                  ELSE IF r.err # NilErr THEN "failed"
                                  ELSE "planned",
                           !.idx = 1,
                           !.first = IF @ = "none" THEN "other" ELSE @,
                           !.overlap = @ \/ InProgress]
    /\ UNCHANGED <<dc, pc, corrections, idx, pass, prev, last, provider>>

RunOtherCorrection(net) ==
    /\ OtherInProgress
    /\ LET r == CorrectionF(provider.apiClient, other.corrections[other.idx], net)
       IN  /\ zone' = Serve(zone, r.requests, net)
           /\ other' = [other EXCEPT
                           !.pc = IF r.ret = NilErr THEN "planned" ELSE "stopped",
                           !.idx = IF r.ret = NilErr THEN @ + 1 ELSE @]
    /\ UNCHANGED <<dc, pc, corrections, idx, pass, prev, last, provider>>

FetchOther == \E net \in GetOk : RunOtherGetDomainCorrections(net)

ExecuteOther == \E net \in PatchOk : RunOtherCorrection(net)

NextRace == FetchFirst \/ ExecuteFirst \/ FetchOther \/ ExecuteOther

SpecRace == InitRace /\ [][NextRace]_vars

----------------------------------------------------------------------------
(* Properties *)

Fields(rc) == <<rc.NameFQDN, rc.Type, rc.Target, rc.TTL>>

FieldSet(recs) == {Fields(recs[i]) : i \in 1..Len(recs)}

(* What a fetch of the zone would give now. *)
CurrentRecords == nativeToDomainConfig(zone, dc)

Converged == FieldSet(CurrentRecords) = FieldSet(dc.Records)

Class(cor) ==
    IF cor.c.Desired = NoRecord THEN "delete"
    ELSE IF cor.c.Existing = NoRecord THEN "create"
    ELSE "modify"

Rank(cor) ==
    IF Class(cor) = "delete" THEN 1 ELSE IF Class(cor) = "modify" THEN 2 ELSE 3

Position(recs, k) == CHOOSE i \in 1..Len(recs) : Key(recs[i]) = k

JustPlanned == last.fn = "GetDomainCorrections" /\ pc = "planned"

RanCorrection == corrections[last.ran]

SharesSet(a, b) == a.NameFQDN = b.NameFQDN /\ a.Type = b.Type

(* C1: once every correction of a pass has been executed successfully, in   *)
(* the returned order, a fetch of the zone gives exactly the desired        *)
(* records on name, type, target and ttl.                                   *)
C1_Convergence == PassComplete => Converged

(* C2: a pass that follows a completely executed pass for the same desired  *)
(* state returns no correction.                                             *)
C2_Idempotence == (JustPlanned /\ prev = "complete") => corrections = <<>>

(* C3: the desired records of one (name, type) are grouped into one REPLACE *)
(* correction whose payload carries every desired target of the set.        *)
C3_GroupedReplace ==
    JustPlanned =>
        \A i \in 1..Len(corrections) :
            corrections[i].F = "replace" =>
                LET d == corrections[i].c.Desired
                    sets == CorrectionSets(corrections[i])
                IN  /\ \A j \in 1..Len(corrections) :
                           (corrections[j].F = "replace"
                            /\ SharesSet(corrections[j].c.Desired, d)) => j = i
                    /\ {sets[1].Records[n].Content : n \in 1..Len(sets[1].Records)}
                         = {dc.Records[n].Target :
                               n \in {m \in 1..Len(dc.Records) : SharesSet(dc.Records[m], d)}}

(* C4: in the returned list deletions precede modifications, which precede  *)
(* creations; deletions keep the order of the fetched records, and          *)
(* modifications and creations keep the order of the desired records.       *)
C4_Ordering ==
    JustPlanned =>
        \A i, j \in 1..Len(corrections) :
            i < j =>
                /\ Rank(corrections[i]) <= Rank(corrections[j])
                /\ (Class(corrections[i]) = "delete" /\ Class(corrections[j]) = "delete")
                     => Position(CurrentRecords, Key(corrections[i].c.Existing))
                          < Position(CurrentRecords, Key(corrections[j].c.Existing))
                /\ (Class(corrections[i]) = Class(corrections[j])
                    /\ Class(corrections[i]) # "delete")
                     => Position(dc.Records, Key(corrections[i].c.Desired))
                          < Position(dc.Records, Key(corrections[j].c.Desired))

C4_Witness ==
    /\ JustPlanned
    /\ \E i, j, k, l \in 1..Len(corrections) :
           /\ i < j /\ j < k /\ k < l
           /\ Class(corrections[i]) = "delete"
           /\ Class(corrections[j]) = "delete"
           /\ Class(corrections[k]) = "modify"
           /\ Class(corrections[l]) = "create"

(* C5: running a create or modify correction sends one record-set with      *)
(* changetype REPLACE, the desired record's FQDN plus a trailing dot, its    *)
(* type and ttl, and one record with the desired target, not disabled.      *)
C5_ReplacePayload ==
    (last.fn = "F" /\ Class(RanCorrection) \in {"create", "modify"}) =>
        \E n \in 1..Len(dc.Records) :
            LET d == dc.Records[n]
            IN  /\ Key(d) = Key(RanCorrection.c.Desired)
                /\ last.requests =
                     <<Request("PATCH", dc.Name,
                               <<[Name |-> TrailingDot(d.NameFQDN), Type |-> d.Type,
                                  TTL |-> d.TTL, ChangeType |-> "REPLACE",
                                  Records |-> <<[Content |-> d.Target,
                                                 Disabled |-> FALSE,
                                                 SetPr |-> FALSE]>>]>>)>>

C5_Witness ==
    /\ last.fn = "F"
    /\ Class(RanCorrection) = "modify"
    /\ RanCorrection.c.Existing.TTL # RanCorrection.c.Desired.TTL
    /\ last.net.delivered

(* C6: running a delete correction sends one record-set with changetype     *)
(* DELETE, the existing record's FQDN plus a trailing dot, its type, one     *)
(* record with the existing target, and no TTL; the record is no desired    *)
(* record.                                                                  *)
C6_DeletePayload ==
    (last.fn = "F" /\ Class(RanCorrection) = "delete") =>
        LET e == RanCorrection.c.Existing
        IN  /\ Key(e) \notin Keys(dc.Records)
            /\ last.requests =
                 <<Request("PATCH", dc.Name,
                           <<[Name |-> TrailingDot(e.NameFQDN), Type |-> e.Type,
                              TTL |-> 0, ChangeType |-> "DELETE",
                              Records |-> <<[Content |-> e.Target,
                                             Disabled |-> FALSE,
                                             SetPr |-> FALSE]>>]>>)>>

C6_Witness ==
    /\ last.fn = "F"
    /\ Class(RanCorrection) = "delete"
    /\ RanCorrection.c.Existing.TTL # 0
    /\ last.net.delivered

(* C7: one run of a correction's action calls UpdateZoneRRSets once, for    *)
(* the zone of the domain, and returns what that call returned.             *)
C7_MutatorOnce ==
    last.fn = "F" =>
        /\ Len(last.calls) = 1
        /\ last.calls[1].zoneId = dc.Name
        /\ last.ret = last.calls[1].err
        /\ Len(last.requests) <= 1

C7_Witness ==
    /\ last.fn = "F"
    /\ last.calls[1].err # NilErr
    /\ last.ret = last.calls[1].err

(* C8: UpdateZoneRRSets returns nil exactly when its request was sent and   *)
(* answered 204; it sends at most one request, a PATCH.                     *)
C8_SuccessOnlyNoContent ==
    last.fn = "F" =>
        /\ (last.calls[1].err = NilErr)
             = (Len(last.requests) = 1 /\ last.net.status = StatusNoContent)
        /\ Len(last.requests) <= 1
        /\ \A n \in 1..Len(last.requests) : last.requests[n].method = "PATCH"

C8_Witness ==
    /\ last.fn = "F"
    /\ last.net.status = StatusOK
    /\ last.calls[1].err = Err("failed to update DNS records", StatusOK)

(* The outcomes of the GET that make the fetch fail: no response, a status *)
(* other than 200, a body that cannot be read or decoded.                   *)
FetchFails(net) == net.status # StatusOK \/ net.body \in {"bad", "readerr"}

(* C9: when the fetch of the zone fails, GetDomainCorrections returns the   *)
(* fetch's error and no list, computes no diff, sends no PATCH and leaves   *)
(* the zone as it was.                                                      *)
C9_FetchFailureAborts ==
    (last.fn = "GetDomainCorrections" /\ FetchFails(last.net)) =>
        /\ last.fetched.err # NilErr
        /\ last.ret = last.fetched.err
        /\ ~last.hasList
        /\ corrections = <<>>
        /\ ~last.diffed
        /\ \A n \in 1..Len(last.requests) : last.requests[n].method = "GET"
        /\ ~last.changed
        /\ pc = "failed"

C9_Witness ==
    /\ last.fn = "GetDomainCorrections"
    /\ last.net.status = StatusNotFound
    /\ last.ret = Err("domain does not exists in DNS zone", 0)
    /\ dc.Records # <<>>

(* C10: GetZone returns the zone and no error for a 200 with a decodable    *)
(* body, a not-found error unlike any other for a 404, a generic error      *)
(* otherwise; never a zone with an error, never a nil zone with no error.   *)
C10_GetZoneOutcomes ==
    last.fn = "GetDomainCorrections" =>
        LET f == last.fetched
            notFound == Err("domain does not exists in DNS zone", 0)
            decoded == last.net.status = StatusOK /\ last.net.body \in {"zone", "null"}
        IN  /\ decoded => (~f.zone.isNil /\ f.err = NilErr)
            /\ last.net.status = StatusNotFound => f.err = notFound
            /\ (~decoded /\ last.net.status # StatusNotFound)
                 => (f.err # NilErr /\ f.err # notFound)
            /\ ~(~f.zone.isNil /\ f.err # NilErr)
            /\ ~(f.zone.isNil /\ f.err = NilErr)

CorrectionKey(cor) ==
    IF cor.c.Desired = NoRecord THEN Key(cor.c.Existing) ELSE Key(cor.c.Desired)

(* The number of returned corrections of a class for a key. *)
CountOf(k, class) ==
    Cardinality({i \in 1..Len(corrections) :
                    CorrectionKey(corrections[i]) = k /\ Class(corrections[i]) = class})

TTLOf(recs, k) == recs[Position(recs, k)].TTL

(* C11: the corrections returned for duplicate-free inputs partition the    *)
(* keys: a key only desired gets one create, a key only current one delete, *)
(* a key in both with another ttl one modify, a key in both with the same   *)
(* ttl nothing; no key gets corrections of two classes.                     *)
C11_Partition ==
    JustPlanned =>
        /\ \A i \in 1..Len(corrections) :
               CorrectionKey(corrections[i]) \in Keys(dc.Records) \cup Keys(CurrentRecords)
        /\ \A k \in Keys(dc.Records) \cup Keys(CurrentRecords) :
               LET want == IF k \notin Keys(CurrentRecords) THEN "create"
                           ELSE IF k \notin Keys(dc.Records) THEN "delete"
                           ELSE IF TTLOf(dc.Records, k) # TTLOf(CurrentRecords, k)
                                THEN "modify"
                           ELSE "none"
               IN  \A class \in {"create", "delete", "modify"} :
                       CountOf(k, class) = IF class = want THEN 1 ELSE 0

C11_Witness ==
    /\ JustPlanned
    /\ \E i, j \in 1..Len(corrections) :
           Class(corrections[i]) = "delete" /\ Class(corrections[j]) = "modify"
    /\ \E k \in Keys(dc.Records) \cap Keys(CurrentRecords) :
           TTLOf(dc.Records, k) = TTLOf(CurrentRecords, k)

(* A wire name that is the zone or a strict subdomain of it. *)
WithinZone(n, z) ==
    /\ Len(n) > 1
    /\ n[Len(n)] = ""
    /\ IsSuffix(z, SubSeq(n, 1, Len(n) - 1))

C13_FailFastRecovery == (PassComplete /\ prev = "partial") => Converged

Verb(class) ==
    IF class = "create" THEN "CREATE" ELSE IF class = "modify" THEN "MODIFY" ELSE "DELETE"

(* C14: GetDomainCorrections sends one GET and no PATCH and leaves the zone *)
(* as it is; each correction it returns carries its description before any  *)
(* action has run; the zone changes only in a run of a correction's action. *)
C14_PlanningReadOnly ==
    /\ last.fn = "GetDomainCorrections" =>
           /\ last.requests = <<Request("GET", dc.Name, <<>>)>>
           /\ ~last.changed
           /\ \A i \in 1..Len(corrections) :
                  /\ corrections[i].Msg[1] = Verb(Class(corrections[i]))
                  /\ corrections[i].Msg[2] = CorrectionKey(corrections[i])
    /\ last.changed => last.fn = "F"

C14_Witness ==
    /\ JustPlanned
    /\ prev = "preview"
    /\ Len(corrections) >= 2

(* C17: when every correction of a pass has been executed, a desired record *)
(* that the pass left unchanged is still in the zone, also when the pass    *)
(* deleted another record of its (name, type).                              *)
C17_DeleteKeepsSiblings ==
    PassComplete =>
        \A n \in 1..Len(dc.Records) :
            LET d == dc.Records[n]
            IN  (/\ \A i \in 1..Len(corrections) : CorrectionKey(corrections[i]) # Key(d)
                 /\ \E i \in 1..Len(corrections) :
                        /\ Class(corrections[i]) = "delete"
                        /\ SharesSet(corrections[i].c.Existing, d))
                    => Fields(d) \in FieldSet(CurrentRecords)

FetchedSets == last.fetched.zone.RRsets

FetchSucceeded ==
    /\ last.fn = "GetDomainCorrections"
    /\ last.fetched.err = NilErr
    /\ ~last.fetched.zone.isNil

(* C15: a fetched record whose name lies outside the zone makes             *)
(* GetDomainCorrections return an error and no corrections.                 *)
C15_ForeignNameRejected ==
    (/\ FetchSucceeded
     /\ \E j \in 1..Len(FetchedSets) :
            /\ ~WithinZone(FetchedSets[j].Name, dc.Name)
            /\ FetchedSets[j].Records # <<>>)
        => (last.ret # NilErr /\ ~last.hasList /\ corrections = <<>>)

RECURSIVE RecordsBefore(_, _)
RecordsBefore(native, j) ==
    IF j <= 1 THEN 0 ELSE RecordsBefore(native, j - 1) + Len(native[j - 1].Records)

(* C16: nativeToDomainConfig gives one record per record of each record-set, *)
(* in the order of the record-sets and of the records within each; a record *)
(* carries the type and ttl of its set and its own content as target.       *)
C16_Flatten ==
    FetchSucceeded =>
        /\ Len(last.current) = RecordsBefore(FetchedSets, Len(FetchedSets) + 1)
        /\ \A j \in 1..Len(FetchedSets) :
               \A k \in 1..Len(FetchedSets[j].Records) :
                   LET rc == last.current[RecordsBefore(FetchedSets, j) + k]
                   IN  /\ rc.Type = FetchedSets[j].Type
                       /\ rc.TTL = FetchedSets[j].TTL
                       /\ rc.Target = FetchedSets[j].Records[k].Content

C16_Witness ==
    /\ FetchSucceeded
    /\ Len(FetchedSets) = 2
    /\ FetchedSets[1].Records = <<>>
    /\ Len(FetchedSets[2].Records) = 2
    /\ Len(last.current) = 2

ZoneListRequest == Request("GET", <<>>, <<>>)

Constructed == last.fn = "newPowerDNSProvider"

(* C19 as claimed: with an empty api key or base url newPowerDNSProvider    *)
(* returns an error and sends nothing; otherwise it sends one zone-list      *)
(* request and returns a provider exactly when that is answered 200 with a  *)
(* decodable body; never a provider and an error.                           *)
C19_ProviderOrError ==
    Constructed =>
        /\ (last.arg.apikey = "" \/ last.arg.baseurl = "")
             => (last.requests = <<>> /\ last.ret # NilErr /\ ~provider.made)
        /\ (last.arg.apikey # "" /\ last.arg.baseurl # "")
             => /\ last.requests = <<ZoneListRequest>>
                /\ provider.made
                     = (last.net.status = StatusOK /\ last.net.body \in {"zone", "null"})
        /\ ~(provider.made /\ last.ret # NilErr)

(* C19 as amended: a base url that cannot be parsed is a third case in      *)
(* which an error is returned and nothing is sent.                          *)
C19_ProviderOrErrorAmended ==
    Constructed =>
        LET rejected == \/ last.arg.apikey = ""
                        \/ last.arg.baseurl = ""
                        \/ last.arg.baseurl \in UnparseableUrls
        IN  /\ rejected => (last.requests = <<>> /\ last.ret # NilErr /\ ~provider.made)
            /\ ~rejected
                 => /\ last.requests = <<ZoneListRequest>>
                    /\ provider.made
                         = (last.net.status = StatusOK
                            /\ last.net.body \in {"zone", "null"})
            /\ provider.made = (last.ret = NilErr)
            /\ ~last.changed

C19_Witness ==
    /\ Constructed
    /\ last.arg.apikey # ""
    /\ last.arg.baseurl \in UnparseableUrls
    /\ last.requests = <<>>
    /\ last.ret # NilErr

BothComplete == PassComplete /\ OtherComplete

LastDesired == IF other.first = "this" THEN other.dc ELSE dc

SingleValued(recs) ==
    \A i, j \in 1..Len(recs) :
        (recs[i].NameFQDN = recs[j].NameFQDN /\ recs[i].Type = recs[j].Type) => i = j

(* C18, serialized passes: when the two passes did not overlap and both     *)
(* have applied all their corrections, the zone holds exactly the desired   *)
(* records of the pass that ran last.                                       *)
C18_SerializedLastWins ==
    (BothComplete /\ ~other.overlap)
        => FieldSet(CurrentRecords) = FieldSet(LastDesired.Records)

(* C18, interleaved passes: two overlapping passes, both applied in full,   *)
(* each over record-sets of one record, leave the zone in a state that is   *)
(* the desired state of neither.                                            *)
C18_LostUpdate ==
    /\ BothComplete
    /\ other.overlap
    /\ SingleValued(dc.Records)
    /\ SingleValued(other.dc.Records)
    /\ FieldSet(CurrentRecords) # FieldSet(dc.Records)
    /\ FieldSet(CurrentRecords) # FieldSet(other.dc.Records)

====
